---- MODULE Spec2Model ----
(***************************************************************************)
(* Model of snow-scraper (src/index.js): the forecast-table segmentation   *)
(* (extractBlockData), the row extraction pipeline (scrapeUrl) and the     *)
(* stale-while-revalidate cache of GET /scrape.                            *)
(*                                                                         *)
(* Numbers are kept in tenths (the number 5 is 50, 0.5 is 5), so that the  *)
(* rain transform (/10) stays inside the integers.                         *)
(***************************************************************************)
EXTENDS Integers, Sequences, FiniteSets, TLC

\* ------------------------------------------------------------ bounds ----
MaxCells == 3      \* cells of a row in the segmentation specification
PipeCells == 3     \* cells of the snow row in the pipeline specification
MaxReqs == 3       \* GET /scrape requests in the cache specification
NumUrls == 2       \* distinct url parameters
NumVersions == 2   \* distinct contents a page can be served with

\* ------------------------------------------------- strings and numbers --
\* A JS string or undefined.  A string is either the decimal text of a
\* number (n in tenths) or some other literal text.
Undef == [k |-> "undef", n |-> 0, s |-> ""]
NumStr(n) == [k |-> "num", n |-> n, s |-> ""]
Lit(s) == [k |-> "lit", n |-> 0, s |-> s]

\* JS truthiness of a string-or-undefined: only undefined and "" are falsy
\* (the string "0" is truthy).
Truthy(v) == \/ v.k = "num"
             \/ v.k = "lit" /\ v.s # ""

\* Values found in blocks: a number (tenths), NaN, the sentinel '-' or text.
Num(n) == [k |-> "number", n |-> n, s |-> ""]
NaN == [k |-> "NaN", n |-> 0, s |-> ""]
Dash == [k |-> "text", n |-> 0, s |-> "-"]
Text(v) == [k |-> IF v.k = "num" THEN "numtext" ELSE "text", n |-> v.n, s |-> v.s]
Null == [k |-> "null", n |-> 0, s |-> ""]

\* parseFloat of a string: the number it denotes, NaN for non-numeric text.
parseFloat(v) == IF v.k = "num" THEN Num(v.n) ELSE NaN

\* Number.prototype.toString: "NaN" parses back to NaN.
toString(x) == IF x.k = "number" THEN NumStr(x.n) ELSE Lit("NaN")

\* x + d and x / 10 on numbers-or-NaN (d in tenths; the raw values of the
\* model are whole numbers, so x / 10 is exact in tenths).
Plus(x, d) == IF x.k = "number" THEN Num(x.n + d) ELSE NaN
DivTen(x) == IF x.k = "number" THEN Num(x.n \div 10) ELSE NaN

\* parseInt(text, 10): integer part, truncated toward zero; NaN otherwise.
parseInt(v) ==
  IF v.k = "num"
  THEN Num(10 * (IF v.n >= 0 THEN v.n \div 10 ELSE -((-v.n) \div 10)))
  ELSE NaN

\* String.prototype.trim on the texts used for phrases.
trim(s) == CASE s = " light snow " -> "light snow"
             [] s = "  " -> ""
             [] OTHER -> s

\* ----------------------------------------------------------- documents --
DataTypes == {"snow", "temperature", "wind", "freezing-level", "rain", "phrases"}

\* What the lookups of lines 48-80 find in a cell for the type being
\* processed: container "yes" (found), "no" (not found) or "throw" (the
\* lookup raises); border: the container's class list carries
\* forecast-table__container--border; raw: the attribute / text read.
Raws == {Undef, Lit(""), NumStr(0), NumStr(50)}
Cell(c, b, r) == [container |-> c, border |-> b, raw |-> r]
Cells == {Cell("yes", b, r) : b \in BOOLEAN, r \in Raws}
           \cup {Cell("no", FALSE, Undef), Cell("throw", FALSE, Undef)}

SeqsUpTo(S, n) == UNION {[1..m -> S] : m \in 0..n}

\* A row of the document: exists is FALSE when the selector matches nothing.
NoRow == [exists |-> FALSE, cells |-> <<>>]
Row(cs) == [exists |-> TRUE, cells |-> cs]

\* ------------------------------------------------------ extractBlockData --
\* Lines 48-80: the value read for a found container, after the per-type
\* transform (a string or undefined).
extractValue(type, raw) ==
  CASE type = "temperature" ->
         IF Truthy(raw) THEN toString(Plus(parseFloat(raw), 10)) ELSE raw
    [] type = "freezing-level" ->
         IF Truthy(raw) THEN toString(Plus(parseFloat(raw), 1000)) ELSE raw
    [] type = "rain" ->
         IF Truthy(raw) THEN toString(DivTen(parseFloat(raw))) ELSE raw
    [] type = "phrases" ->
         IF raw.k = "lit" THEN Lit(trim(raw.s)) ELSE IF raw.k = "undef" THEN Lit("") ELSE raw
    [] OTHER -> raw

\* parsedValue testing the parsed number, not the string, for truthiness.
parsedValue_numberTruthiness(type, value) ==
  IF type = "phrases"
  THEN Text(value)
  ELSE (IF Truthy(value) /\ parseFloat(value) # Num(0) THEN parseFloat(value) ELSE Dash)

\* Lines 84-86: phrases keep the text, the other types parse the value or
\* fall back to the sentinel '-'.
parsedValue(type, value) ==
  IF type = "phrases"
  THEN Text(value)
  ELSE (IF Truthy(value) THEN parseFloat(value) ELSE Dash)

\* The state of the loop of lines 40-41.
EmptyAcc == [blocks |-> <<>>, currentBlock |-> <<>>]

\* eachCell with the boundary test moved out of the present-cell path: the
\* last cell closes the current block whatever it holds.
eachCell_closeAtLast(acc, cell, i, n, type) ==
  LET cur == IF cell.container = "yes"
             THEN Append(acc.currentBlock,
                         parsedValue(type, extractValue(type, cell.raw)))
             ELSE acc.currentBlock
  IN IF (cell.container = "yes" /\ cell.border) \/ i = n
     THEN [blocks |-> Append(acc.blocks, cur), currentBlock |-> <<>>]
     ELSE [blocks |-> acc.blocks, currentBlock |-> cur]

\* eachCell with a gap closing the block: a cell without a container ends
\* the current block when it holds values.
eachCell_gapCloses(acc, cell, i, n, type) ==
  IF cell.container # "yes"
  THEN (IF Len(acc.currentBlock) > 0
        THEN [blocks |-> Append(acc.blocks, acc.currentBlock), currentBlock |-> <<>>]
        ELSE acc)
  ELSE LET pushed == Append(acc.currentBlock,
                            parsedValue(type, extractValue(type, cell.raw)))
       IN IF cell.border \/ i = n
          THEN [blocks |-> Append(acc.blocks, pushed), currentBlock |-> <<>>]
          ELSE [blocks |-> acc.blocks, currentBlock |-> pushed]

\* Lines 43-101: the body of cells.each for the cell at (1-based) position
\* i of n.  A raised lookup is caught (98-100) and a missing container
\* returns early (82); both leave the accumulator as it is.
eachCell(acc, cell, i, n, type) ==
  IF cell.container # "yes"
  THEN acc
  ELSE LET pushed == Append(acc.currentBlock,
                            parsedValue(type, extractValue(type, cell.raw)))
       IN IF (cell.border \/ i = n) /\ Len(pushed) > 0
          THEN [blocks |-> Append(acc.blocks, pushed), currentBlock |-> <<>>]
          ELSE [blocks |-> acc.blocks, currentBlock |-> pushed]

RECURSIVE eachFrom(_, _, _, _)
eachFrom(acc, cells, i, type) ==
  IF i > Len(cells) THEN acc
  ELSE eachFrom(eachCell(acc, cells[i], i, Len(cells), type), cells, i + 1, type)

\* Lines 34-103.
extractBlockData(row, type) ==
  IF ~row.exists \/ Len(row.cells) = 0 THEN <<>>
  ELSE eachFrom(EmptyAcc, row.cells, 1, type).blocks

\* Lines 29-32.
maxOf(S) == CHOOSE y \in S : \A z \in S : y >= z

\* findMaxBlockLength measuring the first block only.
findMaxBlockLength_firstBlock(blocks) ==
  IF Len(blocks) = 0 THEN 0 ELSE Len(blocks[1])

findMaxBlockLength(blocks) ==
  IF Len(blocks) = 0 THEN 0
  ELSE maxOf({Len(blocks[j]) : j \in 1..Len(blocks)})

\* ------------------------------------------------------ getResortElevation
\* The elevation indicator of the document: list is FALSE when
\* .elevation-control__list matches nothing, raises is TRUE when a lookup
\* throws, text is the text of the .height element ("" when it is missing).
Elevation(l, t, r) == [list |-> l, text |-> t, raises |-> r]

\* Lines 17-27.
getResortElevation(elev) ==
  IF elev.raises THEN Null
  ELSE IF ~elev.list THEN Null
  ELSE IF Truthy(elev.text) THEN parseInt(elev.text) ELSE Null

\* --------------------------------------------------------------- scrapeUrl
\* A fetched document: one row per data type and the elevation indicator.
Document(rows, elev) == [rows |-> rows, elev |-> elev]

\* scrapeResult with the temperature blocks extracted from the snow row.
scrapeResult_tempFromSnowRow(url, doc) ==
  LET snowBlocks == extractBlockData(doc.rows["snow"], "snow")
  IN [success |-> TRUE,
      resort |-> url,
      bottomElevation |-> getResortElevation(doc.elev),
      snowBlocks |-> snowBlocks,
      temperatureBlocks |-> extractBlockData(doc.rows["snow"], "temperature"),
      windBlocks |-> extractBlockData(doc.rows["wind"], "wind"),
      freezinglevelBlocks |-> extractBlockData(doc.rows["freezing-level"], "freezing-level"),
      rainBlocks |-> extractBlockData(doc.rows["rain"], "rain"),
      phrasesBlocks |-> extractBlockData(doc.rows["phrases"], "phrases"),
      maxSnowBlockLength |-> findMaxBlockLength(snowBlocks)]

\* Lines 114-147: the result built from the loaded document.
scrapeResult(url, doc) ==
  LET snowBlocks == extractBlockData(doc.rows["snow"], "snow")
  IN [success |-> TRUE,
      resort |-> url,
      bottomElevation |-> getResortElevation(doc.elev),
      snowBlocks |-> snowBlocks,
      temperatureBlocks |-> extractBlockData(doc.rows["temperature"], "temperature"),
      windBlocks |-> extractBlockData(doc.rows["wind"], "wind"),
      freezinglevelBlocks |-> extractBlockData(doc.rows["freezing-level"], "freezing-level"),
      rainBlocks |-> extractBlockData(doc.rows["rain"], "rain"),
      phrasesBlocks |-> extractBlockData(doc.rows["phrases"], "phrases"),
      maxSnowBlockLength |-> findMaxBlockLength(snowBlocks)]

\* ------------------------------------------------------------- inputs ----
UrlOf(j) == CASE j = 1 -> "resort-1" [] j = 2 -> "resort-2"
              [] j = 3 -> "resort-3" [] OTHER -> "resort-4"
UrlSet == {UrlOf(j) : j \in 1..NumUrls}

\* Rows of the segmentation specification: every row of up to MaxCells
\* cells, and the one-cell rows over a wider range of numeric raw values.
WideRaws == {NumStr(10 * v) : v \in {-1, 0, 1, 5, 9, 10, 20, 1000}}
SegRows == {NoRow} \cup {Row(cs) : cs \in SeqsUpTo(Cells, MaxCells)}
             \cup {Row(<<Cell("yes", b, r)>>) : b \in BOOLEAN, r \in WideRaws}

\* Documents of the pipeline specification: any snow row over PipeCellSet,
\* each other row either missing or the sample row of its type, any
\* elevation indicator.
PipeCellSet == {Cell("yes", b, NumStr(50)) : b \in BOOLEAN}
                 \cup {Cell("no", FALSE, Undef), Cell("throw", FALSE, Undef)}
SnowRows == {NoRow} \cup {Row(cs) : cs \in SeqsUpTo(PipeCellSet, PipeCells)}
SampleRow(t) ==
  Row(CASE t = "temperature" -> <<Cell("yes", FALSE, NumStr(50))>>
        [] t = "wind" -> <<Cell("yes", TRUE, NumStr(0)), Cell("yes", FALSE, NumStr(50))>>
        [] t = "freezing-level" -> <<Cell("yes", TRUE, NumStr(50)), Cell("yes", TRUE, Undef)>>
        [] t = "rain" -> <<Cell("yes", FALSE, NumStr(50)), Cell("no", FALSE, Undef),
                           Cell("yes", FALSE, Lit(""))>>
        [] t = "phrases" -> <<Cell("yes", TRUE, Lit(" light snow "))>>
        [] OTHER -> <<Cell("yes", FALSE, NumStr(0)), Cell("yes", TRUE, NumStr(50)),
                      Cell("yes", FALSE, NumStr(50))>>)
Elevs == {Elevation(FALSE, Lit(""), FALSE), Elevation(TRUE, Lit(""), FALSE),
          Elevation(TRUE, NumStr(12000), FALSE), Elevation(TRUE, NumStr(12007), FALSE),
          Elevation(TRUE, Lit("n/a"), FALSE), Elevation(TRUE, NumStr(12000), TRUE)}
PipeDocs ==
  {Document([t \in DataTypes |->
               IF t = "snow" THEN sr ELSE IF t \in P THEN SampleRow(t) ELSE NoRow], e) :
     sr \in SnowRows, P \in SUBSET (DataTypes \ {"snow"}), e \in Elevs}

\* Pages of the cache specification: the content a resort page is served
\* with at version v (a snow row of v cells with a boundary after the first
\* cell, a temperature row of one cell, the other rows missing).
Page(v) ==
  Document([t \in DataTypes |->
              CASE t = "snow" -> Row([j \in 1..v |-> Cell("yes", j = 1, NumStr(10 * v))])
                [] t = "temperature" -> Row(<<Cell("yes", FALSE, NumStr(10 * v))>>)
                [] OTHER -> NoRow],
           Elevation(TRUE, NumStr(10000 * v), FALSE))
Versions == 1..NumVersions

\* Lines 108-148 on the pages above: what scrapeUrl(u) returns when the
\* page is served at version v.
scrapeUrl == [u \in UrlSet |-> [v \in Versions |-> scrapeResult(u, Page(v))]]

\* ------------------------------------------------------------- state -----
VARIABLES
  seg,     \* extractBlockData in progress: type, row, i, blocks, currentBlock
  pipe,    \* scrapeUrl after cheerio.load: url, document, returned result
  cache,   \* line 13: url -> stored result, Undef when the key is absent
  pc,      \* request -> "idle", "fetch" (line 109), "text" (line 113), "done"
  url,     \* request -> req.query.url (Undef when the parameter is missing)
  path,    \* request -> branch taken at line 169: "hit", "miss", "bad", "-"
  html,    \* request -> version of the page read at line 113 (0: none)
  sent,    \* request -> the responses sent on res, in order
  writer,  \* history: url -> request whose run last assigned cache[url] (0: none of Reqs)
  source   \* history: request -> writer of the value it was answered with (0: none)

vars == <<seg, pipe, cache, pc, url, path, html, sent, writer, source>>
segVars == <<seg>>
pipeVars == <<pipe>>
cacheVars == <<cache, pc, url, path, html, sent, writer, source>>

Reqs == 1..MaxReqs

SegIdle == [pc |-> "idle", type |-> "snow", row |-> NoRow, i |-> 0,
            acc |-> EmptyAcc, out |-> <<>>]
BlankPage == Document([t \in DataTypes |-> NoRow], Elevation(FALSE, Lit(""), FALSE))
PipeIdle == [pc |-> "idle", url |-> "resort-1", doc |-> BlankPage, out |-> Undef]
CacheInit == /\ cache = [u \in UrlSet |-> Undef]
             /\ pc = [r \in Reqs |-> "idle"]
             /\ url = [r \in Reqs |-> Undef]
             /\ path = [r \in Reqs |-> "-"]
             /\ html = [r \in Reqs |-> 0]
             /\ sent = [r \in Reqs |-> <<>>]
             /\ writer = [u \in UrlSet |-> 0]
             /\ source = [r \in Reqs |-> 0]

\* ------------------------------------- segmentation, cell by cell --------
SegInit == /\ seg \in {[pc |-> "start", type |-> t, row |-> r, i |-> 0,
                        acc |-> EmptyAcc, out |-> <<>>] :
                         t \in DataTypes, r \in SegRows}
           /\ pipe = PipeIdle
           /\ CacheInit

\* Lines 35-38: a missing row or a row without cells returns [].
SegEarlyReturn ==
  /\ seg.pc = "start"
  /\ ~seg.row.exists \/ Len(seg.row.cells) = 0
  /\ seg' = [seg EXCEPT !.pc = "done", !.out = <<>>]
  /\ UNCHANGED <<pipe, cache, pc, url, path, html, sent, writer, source>>

\* Lines 40-41.
SegEnter ==
  /\ seg.pc = "start"
  /\ seg.row.exists /\ Len(seg.row.cells) > 0
  /\ seg' = [seg EXCEPT !.pc = "each", !.acc = EmptyAcc]
  /\ UNCHANGED <<pipe, cache, pc, url, path, html, sent, writer, source>>

\* Lines 43-101: one call of the cells.each callback.
SegEach ==
  /\ seg.pc = "each"
  /\ seg.i < Len(seg.row.cells)
  /\ seg' = [seg EXCEPT !.i = seg.i + 1,
                        !.acc = eachCell(seg.acc, seg.row.cells[seg.i + 1],
                                         seg.i + 1, Len(seg.row.cells), seg.type)]
  /\ UNCHANGED <<pipe, cache, pc, url, path, html, sent, writer, source>>

\* Line 102.
SegReturn ==
  /\ seg.pc = "each"
  /\ seg.i = Len(seg.row.cells)
  /\ seg' = [seg EXCEPT !.pc = "done", !.out = seg.acc.blocks]
  /\ UNCHANGED <<pipe, cache, pc, url, path, html, sent, writer, source>>

SegNext == SegEarlyReturn \/ SegEnter \/ SegEach \/ SegReturn
SegSpec == SegInit /\ [][SegNext]_vars

\* ------------------------------------- the pipeline on one document ------
PipeInit == /\ pipe \in {[pc |-> "loaded", url |-> UrlOf(1), doc |-> d, out |-> Undef] :
                           d \in PipeDocs}
            /\ seg = SegIdle
            /\ CacheInit

\* Lines 116-147.
PipeExtract ==
  /\ pipe.pc = "loaded"
  /\ pipe' = [pipe EXCEPT !.pc = "returned", !.out = scrapeResult(pipe.url, pipe.doc)]
  /\ UNCHANGED <<seg, cache, pc, url, path, html, sent, writer, source>>

PipeNext == PipeExtract
PipeSpec == PipeInit /\ [][PipeNext]_vars

\* ------------------------------------- GET /scrape and its cache ---------
Init == /\ seg = SegIdle
        /\ pipe = PipeIdle
        /\ CacheInit

\* Requests are numbered in the order their handlers start.
IsNext(r) == /\ pc[r] = "idle"
             /\ \A q \in Reqs : q < r => pc[q] # "idle"

\* Urls are opaque keys, numbered in the order requests first name them.
InOrder(u) == \A j \in 2..NumUrls :
                u = UrlOf(j) => \E q \in Reqs : url[q] = Lit(UrlOf(j - 1))

\* The response bodies of lines 165, 171, 185 and 189.
BadRequest == [status |-> 400, success |-> FALSE, error |-> "Missing ?url="]
CachedResponse(data) == [status |-> 200, success |-> TRUE, cached |-> TRUE, data |-> data]
FreshResponse(data) == [status |-> 200, success |-> TRUE, cached |-> FALSE, data |-> data]
ErrorResponse(msg) == [status |-> 500, success |-> FALSE, error |-> msg]

\* The errors scrapeUrl can end with: fetch rejects (line 109), the status
\* is not a success (110-112), reading the body rejects (113).
FetchErrors == {"request failed", "HTTP error! Status: 404"}
TextErrors == {"body read failed"}

\* ---- variants of the handlers' steps, used to test the properties below
\* The hit branch without its early res.json: nothing is sent at line 171.
RequestHit_noEarlyResponse(r, u) ==
  /\ IsNext(r)
  /\ cache[u] # Undef
  /\ url' = [url EXCEPT ![r] = Lit(u)]
  /\ path' = [path EXCEPT ![r] = "hit"]
  /\ pc' = [pc EXCEPT ![r] = "fetch"]
  /\ UNCHANGED <<seg, pipe, cache, html, sent, writer, source>>

\* The hit branch dropping the entry it has just served (invalidate, then
\* refresh).
RequestHit_invalidates(r, u) ==
  /\ IsNext(r)
  /\ cache[u] # Undef
  /\ url' = [url EXCEPT ![r] = Lit(u)]
  /\ path' = [path EXCEPT ![r] = "hit"]
  /\ sent' = [sent EXCEPT ![r] = Append(sent[r], CachedResponse(cache[u]))]
  /\ pc' = [pc EXCEPT ![r] = "fetch"]
  /\ source' = [source EXCEPT ![r] = writer[u]]
  /\ cache' = [cache EXCEPT ![u] = Undef]
  /\ UNCHANGED <<seg, pipe, html, writer>>

\* The hit branch with single-flight refresh: no new run is started while a
\* refresh of the same key is in flight.
RequestHit_singleFlight(r, u) ==
  /\ IsNext(r)
  /\ cache[u] # Undef
  /\ url' = [url EXCEPT ![r] = Lit(u)]
  /\ path' = [path EXCEPT ![r] = "hit"]
  /\ sent' = [sent EXCEPT ![r] = Append(sent[r], CachedResponse(cache[u]))]
  /\ pc' = [pc EXCEPT ![r] =
              IF \E q \in Reqs : /\ path[q] = "hit" /\ url[q] = Lit(u)
                                 /\ pc[q] \in {"fetch", "text"}
              THEN "done" ELSE "fetch"]
  /\ source' = [source EXCEPT ![r] = writer[u]]
  /\ UNCHANGED <<seg, pipe, cache, html, writer>>

\* The catch block of the miss branch deleting the key on failure.
MissFails_evicts(r, msg) ==
  /\ pc[r] \in {"fetch", "text"}
  /\ path[r] = "miss"
  /\ msg \in (IF pc[r] = "fetch" THEN FetchErrors ELSE TextErrors)
  /\ pc' = [pc EXCEPT ![r] = "done"]
  /\ sent' = [sent EXCEPT ![r] = Append(sent[r], ErrorResponse(msg))]
  /\ cache' = [cache EXCEPT ![url[r].s] = Undef]
  /\ UNCHANGED <<seg, pipe, url, path, html, writer, source>>

\* The miss branch storing the response body instead of the result.
MissSucceeds_storesEnvelope(r, v) ==
  /\ pc[r] = "text"
  /\ path[r] = "miss"
  /\ cache' = [cache EXCEPT ![url[r].s] = FreshResponse(scrapeUrl[url[r].s][v])]
  /\ sent' = [sent EXCEPT ![r] = Append(sent[r], FreshResponse(scrapeUrl[url[r].s][v]))]
  /\ writer' = [writer EXCEPT ![url[r].s] = r]
  /\ source' = [source EXCEPT ![r] = r]
  /\ html' = [html EXCEPT ![r] = v]
  /\ pc' = [pc EXCEPT ![r] = "done"]
  /\ UNCHANGED <<seg, pipe, url, path>>

\* The then-callback of the refresh replacing the whole cache object by one
\* holding only the refreshed key.
RefreshSucceeds_resetsCache(r, v) ==
  /\ pc[r] = "text"
  /\ path[r] = "hit"
  /\ cache' = [u \in UrlSet |-> IF u = url[r].s THEN scrapeUrl[u][v] ELSE Undef]
  /\ writer' = [writer EXCEPT ![url[r].s] = r]
  /\ html' = [html EXCEPT ![r] = v]
  /\ pc' = [pc EXCEPT ![r] = "done"]
  /\ UNCHANGED <<seg, pipe, url, path, sent, source>>

\* The refresh failing into the handler's catch block (the refresh awaited
\* inside the try): a 500 follows the response already sent.
RefreshFails_sends500(r, msg) ==
  /\ pc[r] \in {"fetch", "text"}
  /\ path[r] = "hit"
  /\ msg \in (IF pc[r] = "fetch" THEN FetchErrors ELSE TextErrors)
  /\ pc' = [pc EXCEPT ![r] = "done"]
  /\ sent' = [sent EXCEPT ![r] = Append(sent[r], ErrorResponse(msg))]
  /\ UNCHANGED <<seg, pipe, cache, url, path, html, writer, source>>

\* The miss branch without line 184: the result is sent but not stored.
MissSucceeds_noStore(r, v) ==
  /\ pc[r] = "text"
  /\ path[r] = "miss"
  /\ sent' = [sent EXCEPT ![r] = Append(sent[r], FreshResponse(scrapeUrl[url[r].s][v]))]
  /\ source' = [source EXCEPT ![r] = r]
  /\ html' = [html EXCEPT ![r] = v]
  /\ pc' = [pc EXCEPT ![r] = "done"]
  /\ UNCHANGED <<seg, pipe, cache, url, path, writer>>

\* The catch block of the miss branch storing the failure under the key.
MissFails_storesError(r, msg) ==
  /\ pc[r] \in {"fetch", "text"}
  /\ path[r] = "miss"
  /\ msg \in (IF pc[r] = "fetch" THEN FetchErrors ELSE TextErrors)
  /\ pc' = [pc EXCEPT ![r] = "done"]
  /\ sent' = [sent EXCEPT ![r] = Append(sent[r], ErrorResponse(msg))]
  /\ cache' = [cache EXCEPT ![url[r].s] = ErrorResponse(msg)]
  /\ UNCHANGED <<seg, pipe, url, path, html, writer, source>>

\* The catch callback of the refresh dropping the entry it failed to renew.
RefreshFails_evicts(r, msg) ==
  /\ pc[r] \in {"fetch", "text"}
  /\ path[r] = "hit"
  /\ msg \in (IF pc[r] = "fetch" THEN FetchErrors ELSE TextErrors)
  /\ pc' = [pc EXCEPT ![r] = "done"]
  /\ cache' = [cache EXCEPT ![url[r].s] = Undef]
  /\ UNCHANGED <<seg, pipe, url, path, html, sent, writer, source>>

\* The then-callback of the refresh merging into the stored entry: the new
\* snow blocks are appended to the old ones.
RefreshSucceeds_merges(r, v) ==
  /\ pc[r] = "text"
  /\ path[r] = "hit"
  /\ cache' = [cache EXCEPT ![url[r].s] =
                 [scrapeUrl[url[r].s][v] EXCEPT
                    !.snowBlocks = cache[url[r].s].snowBlocks \o @]]
  /\ writer' = [writer EXCEPT ![url[r].s] = r]
  /\ html' = [html EXCEPT ![r] = v]
  /\ pc' = [pc EXCEPT ![r] = "done"]
  /\ UNCHANGED <<seg, pipe, url, path, sent, source>>

\* Lines 163-166: the url parameter is missing.
RequestMissingUrl(r) ==
  /\ IsNext(r)
  /\ pc' = [pc EXCEPT ![r] = "done"]
  /\ path' = [path EXCEPT ![r] = "bad"]
  /\ sent' = [sent EXCEPT ![r] = Append(sent[r], BadRequest)]
  /\ UNCHANGED <<seg, pipe, cache, url, html, writer, source>>

\* Lines 169-174: the key is cached; the stored value is sent, then
\* scrapeUrl is called and runs up to its first await (the fetch).
RequestHit(r, u) ==
  /\ IsNext(r)
  /\ cache[u] # Undef
  /\ url' = [url EXCEPT ![r] = Lit(u)]
  /\ path' = [path EXCEPT ![r] = "hit"]
  /\ sent' = [sent EXCEPT ![r] = Append(sent[r], CachedResponse(cache[u]))]
  /\ pc' = [pc EXCEPT ![r] = "fetch"]
  /\ source' = [source EXCEPT ![r] = writer[u]]
  /\ UNCHANGED <<seg, pipe, cache, html, writer>>

\* Lines 181-183: the key is absent; the handler awaits scrapeUrl, which
\* runs up to its first await (the fetch).
RequestMiss(r, u) ==
  /\ IsNext(r)
  /\ InOrder(u)
  /\ cache[u] = Undef
  /\ url' = [url EXCEPT ![r] = Lit(u)]
  /\ path' = [path EXCEPT ![r] = "miss"]
  /\ pc' = [pc EXCEPT ![r] = "fetch"]
  /\ UNCHANGED <<seg, pipe, cache, html, sent, writer, source>>

\* Lines 109-113: the fetch resolves with a success status; scrapeUrl
\* awaits the body.
FetchOk(r) ==
  /\ pc[r] = "fetch"
  /\ pc' = [pc EXCEPT ![r] = "text"]
  /\ UNCHANGED <<seg, pipe, cache, url, path, html, sent, writer, source>>

Errors(r) == IF pc[r] = "fetch" THEN FetchErrors ELSE TextErrors

\* Lines 183, 187-190: scrapeUrl rejects under the await of the miss branch;
\* the catch block answers 500 with the message.
MissFails(r, msg) ==
  /\ pc[r] \in {"fetch", "text"}
  /\ path[r] = "miss"
  /\ msg \in Errors(r)
  /\ pc' = [pc EXCEPT ![r] = "done"]
  /\ sent' = [sent EXCEPT ![r] = Append(sent[r], ErrorResponse(msg))]
  /\ UNCHANGED <<seg, pipe, cache, url, path, html, writer, source>>

\* Lines 178-180: the refresh rejects; the error is logged.
RefreshFails(r, msg) ==
  /\ pc[r] \in {"fetch", "text"}
  /\ path[r] = "hit"
  /\ msg \in Errors(r)
  /\ pc' = [pc EXCEPT ![r] = "done"]
  /\ UNCHANGED <<seg, pipe, cache, url, path, html, sent, writer, source>>

\* Lines 113-147, 183-185: the body arrives, scrapeUrl returns its result,
\* the miss branch stores it and sends it.
MissSucceeds(r, v) ==
  /\ pc[r] = "text"
  /\ path[r] = "miss"
  /\ LET result == scrapeUrl[url[r].s][v]
     IN /\ cache' = [cache EXCEPT ![url[r].s] = result]
        /\ sent' = [sent EXCEPT ![r] = Append(sent[r], FreshResponse(result))]
  /\ writer' = [writer EXCEPT ![url[r].s] = r]
  /\ source' = [source EXCEPT ![r] = r]
  /\ html' = [html EXCEPT ![r] = v]
  /\ pc' = [pc EXCEPT ![r] = "done"]
  /\ UNCHANGED <<seg, pipe, url, path>>

\* Lines 113-147, 175-177: the body arrives, scrapeUrl returns its result,
\* the then-callback of the refresh stores it.
RefreshSucceeds(r, v) ==
  /\ pc[r] = "text"
  /\ path[r] = "hit"
  /\ cache' = [cache EXCEPT ![url[r].s] = scrapeUrl[url[r].s][v]]
  /\ writer' = [writer EXCEPT ![url[r].s] = r]
  /\ html' = [html EXCEPT ![r] = v]
  /\ pc' = [pc EXCEPT ![r] = "done"]
  /\ UNCHANGED <<seg, pipe, url, path, sent, source>>

Next ==
  \/ \E r \in Reqs : RequestMissingUrl(r)
  \/ \E r \in Reqs, u \in UrlSet : RequestHit(r, u)
  \/ \E r \in Reqs, u \in UrlSet : RequestMiss(r, u)
  \/ \E r \in Reqs : FetchOk(r)
  \/ \E r \in Reqs, msg \in FetchErrors \cup TextErrors : MissFails(r, msg)
  \/ \E r \in Reqs, msg \in FetchErrors \cup TextErrors : RefreshFails(r, msg)
  \/ \E r \in Reqs, v \in Versions : MissSucceeds(r, v)
  \/ \E r \in Reqs, v \in Versions : RefreshSucceeds(r, v)

Spec == Init /\ [][Next]_vars

\* Every fetch eventually returns or fails, and so does every read of a
\* body: a run that is awaiting (lines 109, 113) eventually moves on.
Settle(r) ==
  \/ FetchOk(r)
  \/ \E msg \in FetchErrors \cup TextErrors : MissFails(r, msg)
  \/ \E msg \in FetchErrors \cup TextErrors : RefreshFails(r, msg)
  \/ \E v \in Versions : MissSucceeds(r, v)
  \/ \E v \in Versions : RefreshSucceeds(r, v)

FairSpec == Init /\ [][Next]_vars /\ \A r \in Reqs : WF_vars(Settle(r))

\* The server some time after a first request for resort-1 was answered from
\* a successful cache-miss run (RequestMiss, FetchOk, MissSucceeds): its
\* result is cached, no handler is active, and the requests numbered from
\* here on are the later ones.
WarmInit == /\ seg = SegIdle
            /\ pipe = PipeIdle
            /\ cache = [u \in UrlSet |-> IF u = UrlOf(1) THEN scrapeUrl[u][1] ELSE Undef]
            /\ pc = [r \in Reqs |-> "idle"]
            /\ url = [r \in Reqs |-> Undef]
            /\ path = [r \in Reqs |-> "-"]
            /\ html = [r \in Reqs |-> 0]
            /\ sent = [r \in Reqs |-> <<>>]
            /\ writer = [u \in UrlSet |-> 0]
            /\ source = [r \in Reqs |-> 0]

WarmSpec == WarmInit /\ [][Next]_vars

\* ============================ segmentation properties (SegSpec) ==========
RECURSIVE Flatten(_)
Flatten(blocks) == IF Len(blocks) = 0 THEN <<>>
                   ELSE Head(blocks) \o Flatten(Tail(blocks))

RECURSIVE PresentValues(_, _)
PresentValues(cells, type) ==
  IF Len(cells) = 0 THEN <<>>
  ELSE (IF Head(cells).container = "yes"
        THEN <<parsedValue(type, extractValue(type, Head(cells).raw))>>
        ELSE <<>>) \o PresentValues(Tail(cells), type)

LastCell(row) == row.cells[Len(row.cells)]

\* C6: for every row, the concatenation of the blocks returned by
\* extractBlockData equals, in order, the values of all present cells of the
\* row, also when the last cell is not present or raises.
C6_BlocksPartitionRow ==
  seg.pc = "done" => Flatten(seg.out) = PresentValues(seg.row.cells, seg.type)

\* C7: every block returned by extractBlockData has length at least 1; an
\* empty row and a row without present cells yield no block at all.
C7_NoEmptyBlock ==
  /\ \A j \in 1..Len(seg.acc.blocks) : Len(seg.acc.blocks[j]) >= 1
  /\ seg.pc = "done" =>
       /\ \A j \in 1..Len(seg.out) : Len(seg.out[j]) >= 1
       /\ (\A j \in 1..Len(seg.row.cells) : seg.row.cells[j].container # "yes")
            => seg.out = <<>>

\* A returned row of three cells whose last cell is not present and which
\* still produced a block, and so went through every branch of C7.
C7_Witness ==
  /\ seg.pc = "done"
  /\ Len(seg.row.cells) = 3
  /\ LastCell(seg.row).container # "yes"
  /\ Len(seg.out) >= 1

\* ============================ cache properties (Spec) ====================
Key(r) == url[r].s
Ended(r) == pc[r] # "done" /\ pc'[r] = "done"
Succeeded(r) == Ended(r) /\ html'[r] # 0
Failed(r) == Ended(r) /\ html'[r] = 0
Result(r) == scrapeUrl[Key(r)][html[r]]

\* C1: on a cache miss nothing is sent while the pipeline runs; when it
\* succeeds the response is {success:true, cached:false, data: result} and
\* cache[url] holds exactly that result when the response is sent.
C1_MissRunsThenStoresAndSends ==
  /\ [](\A r \in Reqs : (path[r] = "miss" /\ pc[r] \in {"fetch", "text"}) => sent[r] = <<>>)
  /\ [][\A r \in Reqs :
          (path[r] = "miss" /\ Succeeded(r)) =>
             /\ sent'[r] = <<FreshResponse(scrapeUrl[Key(r)][html'[r]])>>
             /\ cache'[Key(r)] = sent'[r][1].data]_vars

C1_Witness ==
  \E r \in Reqs : /\ path[r] = "miss" /\ pc[r] = "done" /\ html[r] # 0
                  /\ Len(sent[r]) = 1 /\ ~sent[r][1].cached
                  /\ cache[Key(r)] = sent[r][1].data

\* C2: a request handled while its key is cached is answered at once with
\* cached=true and the value stored at that moment, the refresh it triggers
\* being still in flight and the cache untouched; a request answered from
\* the entry a miss stored gets the result that miss returned.
C2_HitServesStoredValueFirst ==
  /\ [][\A r \in Reqs :
          (pc[r] = "idle" /\ path'[r] = "hit") =>
             /\ sent'[r] = <<CachedResponse(cache[url'[r].s])>>
             /\ pc'[r] = "fetch"
             /\ cache' = cache]_vars
  /\ [](\A r \in Reqs : path[r] = "hit" =>
          /\ Len(sent[r]) = 1 /\ sent[r][1].success /\ sent[r][1].cached
          /\ \A q \in Reqs : (source[r] = q /\ path[q] = "miss") =>
                                sent[r][1].data = sent[q][1].data)

C2_Witness ==
  \E q, r \in Reqs : /\ path[q] = "miss" /\ pc[q] = "done"
                     /\ path[r] = "hit" /\ pc[r] = "fetch" /\ source[r] = q
                     /\ Key(r) = Key(q)
                     /\ sent[r][1].data = sent[q][1].data

\* C3: a background refresh that fails leaves the cache as it was and sends
\* nothing; the request that triggered it already has its cached=true
\* response and never gets an error response.
C3_FailedRefreshIsSilent ==
  /\ [][\A r \in Reqs :
          (path[r] = "hit" /\ Failed(r)) =>
             /\ cache' = cache
             /\ sent' = sent
             /\ sent[r] = <<CachedResponse(sent[r][1].data)>>]_vars
  /\ [](\A r \in Reqs : path[r] = "hit" =>
          \A j \in 1..Len(sent[r]) : sent[r][j].success)

C3_Witness ==
  \E r \in Reqs : /\ path[r] = "hit" /\ pc[r] = "done" /\ html[r] = 0
                  /\ cache[Key(r)] = sent[r][1].data

\* C4: a background refresh that succeeds replaces cache[url] by exactly its
\* own result, and a later request answered from that entry gets that
\* result with cached=true.
C4_RefreshReplacesWholesale ==
  /\ [][\A r \in Reqs :
          (path[r] = "hit" /\ Succeeded(r)) =>
             cache'[Key(r)] = scrapeUrl[Key(r)][html'[r]]]_vars
  /\ [](\A r, q \in Reqs :
          (path[r] = "hit" /\ source[r] = q /\ path[q] = "hit") =>
             sent[r] = <<CachedResponse(Result(q))>>)

\* A refresh replaced an entry by a different one and a later request was
\* answered from it.
C4_Witness ==
  \E r, q \in Reqs : /\ path[r] = "hit" /\ source[r] = q /\ path[q] = "hit"
                     /\ sent[r][1].data # sent[q][1].data
                     /\ sent[r][1].data = Result(q)

\* C5: a pipeline run that fails on an absent key writes nothing to the
\* cache and is answered with the single response {success:false, error},
\* which carries no data.
C5_FailedMissStoresNothing ==
  /\ [][\A r \in Reqs :
          (path[r] = "miss" /\ Failed(r)) =>
             /\ cache' = cache
             /\ \E msg \in FetchErrors \cup TextErrors :
                  sent'[r] = <<ErrorResponse(msg)>>
             /\ DOMAIN sent'[r][1] = {"status", "success", "error"}]_vars
  /\ [](\A r \in Reqs : (path[r] = "miss" /\ pc[r] = "done" /\ html[r] = 0) =>
          /\ writer[Key(r)] # r
          /\ Len(sent[r]) = 1 /\ ~sent[r][1].success)

\* A miss failed and its key is still absent.
C5_Witness ==
  \E r \in Reqs : /\ path[r] = "miss" /\ pc[r] = "done" /\ html[r] = 0
                  /\ cache[Key(r)] = Undef
                  /\ Len(sent[r]) = 1 /\ sent[r][1].status = 500

\* ============================ pipeline properties (PipeSpec) =============
BlocksOf(result, t) ==
  CASE t = "snow" -> result.snowBlocks
    [] t = "temperature" -> result.temperatureBlocks
    [] t = "wind" -> result.windBlocks
    [] t = "freezing-level" -> result.freezinglevelBlocks
    [] t = "rain" -> result.rainBlocks
    [] OTHER -> result.phrasesBlocks

WithRow(doc, t, row) == [doc EXCEPT !.rows[t] = row]

\* C8: a document in which the row of one data type is absent yields no
\* block for that type (and maxSnowBlockLength = 0 for the snow row), the
\* pipeline succeeds, and the blocks of every other type are those it
\* yields when the absent row is there.
C8_AbsentRowOnlyEmptiesItsType ==
  pipe.pc = "returned" =>
    \A t \in DataTypes :
      ~pipe.doc.rows[t].exists =>
        /\ pipe.out.success
        /\ BlocksOf(pipe.out, t) = <<>>
        /\ t = "snow" => pipe.out.maxSnowBlockLength = 0
        /\ \A t2 \in DataTypes \ {t} :
             BlocksOf(pipe.out, t2) =
               BlocksOf(scrapeResult(pipe.url, WithRow(pipe.doc, t, SampleRow(t))), t2)

\* The snow row is absent and every other row produced blocks.
C8_Witness ==
  /\ pipe.pc = "returned"
  /\ ~pipe.doc.rows["snow"].exists
  /\ pipe.out.snowBlocks = <<>>
  /\ \A t \in DataTypes \ {"snow"} : Len(BlocksOf(pipe.out, t)) >= 1

\* C9: in every result maxSnowBlockLength is the maximum length among the
\* blocks of snowBlocks, and 0 when there is none.
C9_MaxSnowBlockLength ==
  pipe.pc = "returned" =>
    LET b == pipe.out.snowBlocks
        m == pipe.out.maxSnowBlockLength
    IN /\ Len(b) = 0 => m = 0
       /\ Len(b) > 0 => /\ \E j \in 1..Len(b) : Len(b[j]) = m
                        /\ \A j \in 1..Len(b) : Len(b[j]) <= m

\* Snow blocks of lengths 1 and 2, in this order: the maximum is not the
\* first block's length.
C9_Witness ==
  /\ pipe.pc = "returned"
  /\ Len(pipe.out.snowBlocks) = 2
  /\ Len(pipe.out.snowBlocks[1]) = 1
  /\ Len(pipe.out.snowBlocks[2]) = 2
  /\ pipe.out.maxSnowBlockLength = 2

\* C10: bottomElevation is an integer or null; it is null when the
\* elevation indicator is absent or its text does not parse as an integer,
\* and the pipeline does not fail.
C10_ElevationIntegerOrNull ==
  pipe.pc = "returned" =>
    LET e == pipe.out.bottomElevation IN
    /\ pipe.out.success
    /\ e = Null \/ (e.k = "number" /\ e.n % 10 = 0)
    /\ (~pipe.doc.elev.list \/ pipe.doc.elev.text.k # "num") => e = Null

\* The values pushed so far, in order, and the present cells they come from.
Seen == Flatten(seg.acc.blocks) \o seg.acc.currentBlock
IsPresent(c) == c.container = "yes"
PresentSoFar == SelectSeq(SubSeq(seg.row.cells, 1, seg.i), IsPresent)

\* The claimed transform of a raw number n (tenths) for a data type.
Transformed(type, n) ==
  CASE type = "temperature" -> n + 10
    [] type = "freezing-level" -> n + 1000
    [] type = "rain" -> n \div 10
    [] OTHER -> n

\* C11: a present cell with raw numeric value v yields v+1 for temperature,
\* v+100 for freezing-level, v/10 for rain and v for snow and wind, for
\* every raw value including 0.
C11_PerTypeTransforms ==
  seg.type # "phrases" =>
    /\ Len(Seen) = Len(PresentSoFar)
    /\ \A j \in 1..Len(PresentSoFar) :
         PresentSoFar[j].raw.k = "num" =>
           Seen[j] = Num(Transformed(seg.type, PresentSoFar[j].raw.n))

\* Rain of raw value 0 returned as the number 0.
C11_Witness ==
  /\ seg.pc = "done"
  /\ seg.type = "rain"
  /\ seg.row.cells = <<Cell("yes", FALSE, NumStr(0))>>
  /\ seg.out = <<<<Num(0)>>>>

\* ============================ cache properties, continued (Spec) =========
IsCached(u) == cache[u] # Undef

\* C12 as claimed: once a key is cached, its stored value changes only when
\* a background refresh started by a cache hit completes successfully; the
\* completion of a cache-miss run never overwrites a cached entry.
C12_OnlyRefreshOverwrites ==
  [][\A u \in UrlSet :
       (IsCached(u) /\ cache'[u] # cache[u]) =>
          \E r \in Reqs : path[r] = "hit" /\ Key(r) = u /\ Succeeded(r)]_vars

\* C12 as amended: once a key is cached, its stored value changes only when
\* a pipeline run for that key completes successfully, be it a background
\* refresh or a cache-miss run started while the key was absent, and it
\* becomes that run's result.
C12_OnlySuccessfulRunsOverwrite ==
  [][\A u \in UrlSet :
       (IsCached(u) /\ cache'[u] # cache[u]) =>
          \E r \in Reqs : /\ path[r] \in {"hit", "miss"}
                          /\ Key(r) = u
                          /\ Succeeded(r)
                          /\ cache'[u] = scrapeUrl[u][html'[r]]]_vars

\* Two cache-miss runs for the same key completed one after the other, and
\* the second replaced the entry the first had stored.
C12_Witness ==
  \E q, r \in Reqs : /\ q # r /\ path[q] = "miss" /\ path[r] = "miss"
                     /\ Key(q) = Key(r)
                     /\ pc[q] = "done" /\ pc[r] = "done"
                     /\ html[q] # 0 /\ html[r] # 0
                     /\ writer[Key(r)] = r
                     /\ sent[q][1].data # cache[Key(r)]
                     /\ sent[r][1].data = cache[Key(r)]

\* ---- cache hits and their refreshes (WarmSpec)
InFlight(r) == pc[r] \in {"fetch", "text"}
HitsOf(u) == {r \in Reqs : path[r] = "hit" /\ Key(r) = u}
CachedAnswersOf(u) ==
  {r \in Reqs : Key(r) = u /\ \E j \in 1..Len(sent[r]) :
                                 sent[r][j].success /\ sent[r][j].cached}
HandledAsHit(r) == pc[r] = "idle" /\ path'[r] = "hit"

\* C13 as claimed: every cache hit starts its own refresh, as many
\* refreshes as cached=true responses per key; two requests for the same
\* cached key, the second handled while the first one's refresh is in
\* flight, return the same stale value and leave two refreshes in flight.
C13_HitsReturnSameStaleValue ==
  /\ [](\A u \in UrlSet : Cardinality(HitsOf(u)) = Cardinality(CachedAnswersOf(u)))
  /\ [][\A r \in Reqs :
          HandledAsHit(r) =>
            /\ pc'[r] = "fetch"
            /\ \A q \in Reqs :
                 (path[q] = "hit" /\ url[q] = url'[r] /\ InFlight(q)) =>
                    /\ pc'[q] = pc[q]
                    /\ sent'[r][1].data = sent[q][1].data]_vars

\* C13 as amended: the same, the two requests returning the same stale
\* value when no run for the key has stored a result between them.
C13_EveryHitStartsItsOwnRefresh ==
  /\ [](\A u \in UrlSet : Cardinality(HitsOf(u)) = Cardinality(CachedAnswersOf(u)))
  /\ [][\A r \in Reqs :
          HandledAsHit(r) =>
            /\ pc'[r] = "fetch"
            /\ \A q \in Reqs :
                 (path[q] = "hit" /\ url[q] = url'[r] /\ InFlight(q)) =>
                    /\ pc'[q] = pc[q]
                    /\ writer[url'[r].s] = source[q] =>
                         sent'[r][1].data = sent[q][1].data]_vars

\* Two refreshes of the same key in flight at once, both requests having
\* been answered with the same stale value.
C13_Witness ==
  \E q, r \in Reqs : /\ q < r /\ path[q] = "hit" /\ path[r] = "hit"
                     /\ Key(q) = Key(r)
                     /\ InFlight(q) /\ InFlight(r)
                     /\ sent[q][1].data = sent[r][1].data

\* ---- block boundaries and extraction errors (SegSpec)
PresentCells == SelectSeq(seg.row.cells, IsPresent)

\* The positions, among the values returned, at which a block ends.
RECURSIVE BlockEnds(_, _)
BlockEnds(blocks, base) ==
  IF Len(blocks) = 0 THEN {}
  ELSE {base + Len(Head(blocks))}
         \cup BlockEnds(Tail(blocks), base + Len(Head(blocks)))

\* C15: in the output of extractBlockData a block ends exactly after the
\* value of a marked present cell, or with the last cell of the row: every
\* block but the last ends on a marked cell, no marked cell sits inside a
\* block, and a not-present cell neither closes nor starts a block.
C15_BoundariesAtMarkers ==
  seg.pc = "done" =>
    LET total == Len(Flatten(seg.out))
        ends == BlockEnds(seg.out, 0)
    IN /\ total <= Len(PresentCells)
       /\ \A k \in 1..total :
            /\ k < total => (k \in ends <=> PresentCells[k].border)
            /\ k = total => /\ k \in ends
                            /\ \/ PresentCells[k].border
                               \/ /\ k = Len(PresentCells)
                                  /\ IsPresent(LastCell(seg.row))

\* Two unmarked present cells around a not-present one, returned as one
\* block of two values.
C15_Witness ==
  /\ seg.pc = "done"
  /\ Len(seg.row.cells) = 3
  /\ IsPresent(seg.row.cells[1]) /\ ~seg.row.cells[1].border
  /\ seg.row.cells[2].container = "no"
  /\ IsPresent(seg.row.cells[3])
  /\ Len(seg.out) = 1 /\ Len(seg.out[1]) = 2

HasRaisingCell == \E j \in 1..Len(seg.row.cells) : seg.row.cells[j].container = "throw"

\* C16: an extraction error raised in one cell does not abort the row: the
\* cell contributes no value, every later cell is still processed and the
\* values accumulated before it are kept in the output.
C16_RaisingCellDoesNotAbortRow ==
  /\ (seg.pc = "done" /\ seg.row.exists /\ Len(seg.row.cells) > 0)
       => seg.i = Len(seg.row.cells)
  /\ (seg.pc = "done" /\ HasRaisingCell)
       => Flatten(seg.out) = PresentValues(seg.row.cells, seg.type)

\* ---- the cache entries (Spec)
\* C14: a key that has been cached is still cached: no request, refresh
\* success, refresh failure or failed miss removes an entry.
C14_CachedStaysCached ==
  \A r \in Reqs :
    (path[r] = "hit" \/ (path[r] = "miss" /\ pc[r] = "done" /\ html[r] # 0))
       => IsCached(Key(r))

\* A key that was cached, then saw a cache-miss run and a refresh fail, and
\* is still cached.
C14_Witness ==
  \E q, r \in Reqs : /\ path[q] = "miss" /\ pc[q] = "done" /\ html[q] = 0
                     /\ path[r] = "hit" /\ pc[r] = "done" /\ html[r] = 0
                     /\ Key(q) = Key(r)
                     /\ IsCached(Key(r))

\* C17: every cache entry cache[k] is the complete result of a successful
\* pipeline run for the key k itself: success is true and resort is k.
C17_EntriesAreResultsForTheirKey ==
  \A u \in UrlSet :
    IsCached(u) => /\ \E v \in Versions : cache[u] = scrapeUrl[u][v]
                   /\ cache[u].success
                   /\ cache[u].resort = u

\* Two keys cached, each with a result for itself.
C17_Witness ==
  \E u, w \in UrlSet : /\ u # w /\ IsCached(u) /\ IsCached(w)
                       /\ cache[u].resort = u /\ cache[w].resort = w

\* C18: a cache entry is never overwritten by the result of a run whose
\* fetch started earlier than the fetch of the run that produced the entry
\* stored.  (A run's fetch starts inside its request's handler, so fetches
\* start in the order of the request numbers.)
C18_FreshnessNeverRegresses ==
  [][\A u \in UrlSet : writer'[u] # writer[u] => writer'[u] > writer[u]]_vars

\* C20: handling a request for a key, and the completion of any run for it,
\* leave the cache entry of every other key unchanged.
C20_OtherKeysUntouched ==
  [][\A r \in Reqs :
       pc'[r] # pc[r] =>
          \A u \in UrlSet : u # url'[r].s => cache'[u] = cache[u]]_vars

\* Two keys cached, the one cached first still holding what its run stored
\* after a run for the other key has stored its result.
C20_Witness ==
  \E u, w \in UrlSet : /\ u # w /\ IsCached(u) /\ IsCached(w)
                       /\ writer[u] # 0 /\ writer[u] < writer[w]
                       /\ cache[u] = Result(writer[u])

\* ---- one response per request (FairSpec)
\* C19: every request gets exactly one response, never two and, every fetch
\* returning or failing in the end, never none: 400 when the url parameter
\* is missing, no run being started and the cache left unchanged; 500 when
\* the cache-miss run fails; a success response, cached or not, otherwise.
C19_ExactlyOneResponse ==
  /\ [](\A r \in Reqs :
          /\ Len(sent[r]) <= 1
          /\ path[r] = "-" => sent[r] = <<>>
          /\ path[r] = "bad" => /\ sent[r] = <<BadRequest>>
                                /\ pc[r] = "done" /\ html[r] = 0
          /\ path[r] = "hit" => /\ Len(sent[r]) = 1
                                /\ sent[r][1].status = 200
                                /\ sent[r][1].success /\ sent[r][1].cached
          /\ (path[r] = "miss" /\ pc[r] = "done" /\ html[r] = 0) =>
                /\ Len(sent[r]) = 1
                /\ sent[r][1].status = 500 /\ ~sent[r][1].success
          /\ (path[r] = "miss" /\ pc[r] = "done" /\ html[r] # 0) =>
                /\ Len(sent[r]) = 1
                /\ sent[r][1].status = 200
                /\ sent[r][1].success /\ ~sent[r][1].cached)
  /\ [][\A r \in Reqs : (pc[r] = "idle" /\ path'[r] = "bad") => cache' = cache]_vars
  /\ <>[](\A r \in Reqs : pc[r] # "idle" => Len(sent[r]) = 1)

\* The three kinds of answer, each given once: 400, 500 and a success.
C19_Witness ==
  \E p, q, r \in Reqs :
     /\ pc[p] = "done" /\ pc[q] = "done" /\ pc[r] = "done"
     /\ sent[p] = <<BadRequest>>
     /\ path[q] = "miss" /\ Len(sent[q]) = 1 /\ sent[q][1].status = 500
     /\ Len(sent[r]) = 1 /\ sent[r][1].success

====
